---- MODULE Spec2Model ----
(***************************************************************************)
(* The service_setup processor of nanobox (processor/service/setup.go):    *)
(* a saga that loads a Service record, pulls an image, reserves a local    *)
(* and a global address, launches a container, bridges it to the host      *)
(* network, runs the plan hook, persists the Service and projects its      *)
(* environment variables, with registered cleanup functions that are run   *)
(* by a deferred clean() when a step has failed.                           *)
(*                                                                         *)
(* Every saga instance is a process; every call it makes on state shared   *)
(* with other sagas (the store, the address pools, docker, the provider)   *)
(* is one atomic step, so the sagas interleave between those calls.        *)
(*                                                                         *)
(* The build command of the CLI (commands/build.go) is the second part:    *)
(* the loop of BuildCommand.Run that consumes the messages of the mist     *)
(* subscription until a message makes it leave.                            *)
(***************************************************************************)
EXTENDS Integers, Sequences, FiniteSets, TLC

\* ----------------------------------------------------------------- bounds
\* Number of saga instances the registry constructs.
NumInst == 2
\* Number of times a caller invokes Process() on the instance it keeps.
MaxRuns == 2
\* Most users a plan lists.
MaxUsers == 2
\* Most messages the subscription delivers on client.Data.
MaxMsgs == 3
\* Number of addresses in each of the two pools.
PoolSize == 2
\* Most addresses of a pool that are free when the first saga is constructed;
\* the others are held by the services that were set up before.
MaxFree == 1

Inst == 1..NumInst

\* ------------------------------------------------------------ value space
\* Service names are strings of characters, so that the prefix derivation
\* of addEnvVars has something to convert.
NameA == <<"d", ".", "b">>
NameB == <<"w">>
Names == {NameA, NameB}
NoName == << >>
NoLabel == << >>

\* The request metadata a caller may hand to the factory.
Metas ==
  { [name |-> NameA,  image |-> "img", label |-> <<"D", "B">>],
    [name |-> NameB,  image |-> "img", label |-> NoLabel],
    [name |-> NoName, image |-> "img", label |-> NoLabel],
    [name |-> NameA,  image |-> "",    label |-> NoLabel] }
NoMeta == [name |-> NoName, image |-> "", label |-> NoLabel]

\* nil net.IP / the zero container id.
NoIP == 0
NoId == 0
LocalPool == 1..PoolSize
GlobalPool == {100 + k : k \in 1..PoolSize}

\* What the plan hook may print: two documents that parse, one that does not.
PlanNoUsers == "{}"
PlanOneUser == "{users:[{username:u}],default_user:u}"
PlanGarbage == "not json"
PlanOutputs == {PlanNoUsers, PlanOneUser, PlanGarbage}
Passwords == {<<"p", "1">>, <<"p", "2">>}
UserU == <<"u">>

NoPlan == [Users |-> << >>, DefaultUser |-> << >>]

\* models.Service with its zero value.
ZeroService ==
  [ID |-> NoId, Name |-> NoName, ExternalIP |-> << >>, InternalIP |-> << >>,
   State |-> "", Type |-> "", Plan |-> NoPlan]

\* States a record of the store may already be in when the saga is invoked:
\* written by the stage before this saga, or by a stage after it.
InitStates == {"initialized", "active"}

\* The order of the lifecycle:  (absent) -> initialized -> planned -> later.
Rank(st) ==
  CASE st = "" -> 0
    [] st = "initialized" -> 1
    [] st = "planned" -> 2
    [] OTHER -> 3

\* ------------------------------------------------------------------ state
VARIABLES
  db,          \* the store: name -> << >> (no record) or <<Service>>
  envdb,       \* the store: the application's EnvVars table (key -> value)
  localHeld,   \* ip_control: addresses of the local pool that are reserved
  globalHeld,  \* ip_control: addresses of the global pool that are reserved
  containers,  \* docker: the containers that exist
  bridge,      \* provider: addresses added to the bridge
  nat,         \* provider: NAT mappings <<global, local>>
  pc,          \* where each instance is in the factory / Process() / clean()
  meta,        \* control.Meta of each instance
  service,     \* self.service
  localIP,     \* self.localIP
  globalIP,    \* self.globalIP
  container,   \* self.container.ID
  plan,        \* self.plan
  fail,        \* self.fail
  cleanFuncs,  \* self.cleanFuncs
  envVars,     \* addEnvVars: its local envVars between the Get and the Put
  cleanIdx,    \* the position of clean()'s range loop
  ret,         \* what the factory or Process() returns to its caller
  cleanRet,    \* what clean() returned
  calls,       \* history: the external calls of each instance, with outcome
  loaded,      \* history: the state loadService left in self.service
  startFree,   \* history: the free addresses <<local, global>> when Process() began
  stream,      \* BuildCommand.Run: where it is with its loop over client.Data
  entry,       \* BuildCommand.Run: the Entry every message is unmarshalled into
  delivered    \* history: the messages the loop has taken from client.Data

sagaVars == <<db, envdb, localHeld, globalHeld, containers, bridge, nat, pc, meta,
              service, localIP, globalIP, container, plan, fail, cleanFuncs,
              envVars, cleanIdx, ret, cleanRet, calls, loaded, startFree>>
buildVars == <<stream, entry, delivered>>
vars == <<sagaVars, buildVars>>

\* No result yet / the nil error.
Pending == <<"pending">>
Nil == << >>

\* A field a JSON document does not mention.
Absent == "<absent>"

\* The Entry of BuildCommand.Run before the first message: every field empty.
ZeroEntry == [Log |-> "", Model |-> "", Document |-> ""]

\* No build command is running.
BuildIdle ==
  /\ stream = "idle"
  /\ entry = ZeroEntry
  /\ delivered = << >>

\* The store, the pools, docker and the provider before any saga instance is
\* constructed.
InitSaga ==
  /\ \E n \in Names, st \in InitStates \cup {""} :
       db = [m \in Names |->
               IF m = n /\ st # ""
                 THEN <<[ZeroService EXCEPT !.Name = n, !.State = st]>>
                 ELSE << >>]
  /\ envdb = << >>
  /\ localHeld \in {1..k : k \in (PoolSize - MaxFree)..PoolSize}
  /\ globalHeld \in {{100 + j : j \in 1..k} : k \in (PoolSize - MaxFree)..PoolSize}
  /\ containers = {}
  /\ bridge = {}
  /\ nat = {}
  /\ pc = [i \in Inst |-> "new"]
  /\ meta = [i \in Inst |-> NoMeta]
  /\ service = [i \in Inst |-> ZeroService]
  /\ localIP = [i \in Inst |-> NoIP]
  /\ globalIP = [i \in Inst |-> NoIP]
  /\ container = [i \in Inst |-> NoId]
  /\ plan = [i \in Inst |-> ""]
  /\ fail = [i \in Inst |-> FALSE]
  /\ cleanFuncs = [i \in Inst |-> << >>]
  /\ envVars = [i \in Inst |-> << >>]
  /\ cleanIdx = [i \in Inst |-> 0]
  /\ ret = [i \in Inst |-> Pending]
  /\ cleanRet = [i \in Inst |-> Pending]
  /\ calls = [i \in Inst |-> << >>]
  /\ loaded = [i \in Inst |-> "none"]
  /\ startFree = [i \in Inst |-> <<0, 0>>]

Init == InitSaga /\ BuildIdle

\* ------------------------------------------------------------- ip_control
\* The pools are one atomic "take a free slot" each; which free address is
\* handed out is not determined.  A result is [ok, ip, held].
Reserve(pool, held) ==
  IF pool \ held = {}
    THEN {[ok |-> FALSE, ip |-> NoIP, held |-> held]}
    ELSE {[ok |-> TRUE, ip |-> a, held |-> held \cup {a}] : a \in pool \ held}

ReserveLocal == Reserve(LocalPool, localHeld)
ReserveGlobal == Reserve(GlobalPool, globalHeld)

\* ReturnIP(ip): returning an address that is not held is an error; a return
\* that succeeds frees the address in the pool it belongs to.
ReturnIPOk(ip) == ip \in localHeld \cup globalHeld
ReturnIPLocal(ip) == localHeld \ {ip}
ReturnIPGlobal(ip) == globalHeld \ {ip}

\* ---------------------------------------------------------------- helpers
Call(i, op, ok) == calls' = [calls EXCEPT ![i] = Append(@, [op |-> op, ok |-> ok])]

\* An append whose result is not assigned back to self.cleanFuncs.
PushDropped(i, f) == UNCHANGED cleanFuncs

\* self.cleanFuncs = append(self.cleanFuncs, f)
Push(i, f) == cleanFuncs' = [cleanFuncs EXCEPT ![i] = Append(@, f)]

Closure(f, id) == [f |-> f, id |-> id]

\* The errors of the steps and of the cleanup functions.  An error is its
\* message, kept as the sequence of the pieces it was formatted from, so that
\* a prefix put in front of a message stays visible.
ErrMissing == <<"missing image or name">>
ErrPull == <<"ImagePull failed">>
ErrPoolExhausted == <<"pool exhausted">>
ErrCreate == <<"CreateContainer failed">>
ErrAddIP == <<"AddIP failed">>
ErrAddNat == <<"AddNat failed">>
ErrExec == <<"Exec failed">>
ErrUnmarshal == <<"invalid plan">>
ErrPutService == <<"Put service failed">>
ErrPutEnv == <<"Put env failed">>
CleanErr ==
  [ReturnLocal |-> <<"ReturnIP local failed">>, ReturnGlobal |-> <<"ReturnIP global failed">>,
   ContainerRemove |-> <<"ContainerRemove failed">>, RemoveIP |-> <<"RemoveIP failed">>,
   RemoveNat |-> <<"RemoveNat failed">>]

\* An Errorf that drops the stage and passes the message on as it is.
ErrorfBare(stage, err) == err

\* fmt.Errorf("persistService:%s", err.Error()): the message with the stage
\* in front of it.
Errorf(stage, err) == <<stage>> \o err

\* persistService, line 273: what it returns when the plan does not parse.
ErrParse == Errorf("persistService:", ErrUnmarshal)

\* "return err" in Process(): the result is fixed, then the deferred clean()
\* runs before the caller gets it.  clean() returns nil at once unless
\* self.fail is set; otherwise it starts its loop over self.cleanFuncs.
Return(i, err, failed) ==
  /\ ret' = [ret EXCEPT ![i] = err]
  /\ fail' = [fail EXCEPT ![i] = failed]
  /\ IF failed /\ cleanFuncs[i] # << >>
       THEN /\ pc' = [pc EXCEPT ![i] = "clean"]
            /\ cleanIdx' = [cleanIdx EXCEPT ![i] = 1]
            /\ cleanRet' = [cleanRet EXCEPT ![i] = Pending]
       ELSE /\ pc' = [pc EXCEPT ![i] = "done"]
            /\ cleanRet' = [cleanRet EXCEPT ![i] = Nil]
            /\ UNCHANGED cleanIdx

\* A failure branch that returns the error and forgets self.fail.
AbortNoFlag(i, err) == Return(i, err, FALSE)

\* Process(), the failure branch of every step: "self.fail = true; return err".
Abort(i, err) == Return(i, err, TRUE)

\* Process() that plans right after the launch, the network left out.
AfterSkipsNetwork(step) ==
  CASE step = "load" -> "download"
    [] step = "download" -> "reserveLocal"
    [] step = "reserveLocal" -> "reserveGlobal"
    [] step = "reserveGlobal" -> "launch"
    [] step = "launch" -> "plan"
    [] step = "plan" -> "persist"
    [] step = "persist" -> "envGet"
    [] step = "envGet" -> "envPut"

\* Process() that attaches the NAT mapping before the bridge address.
AfterNatFirst(step) ==
  CASE step = "load" -> "download"
    [] step = "download" -> "reserveLocal"
    [] step = "reserveLocal" -> "reserveGlobal"
    [] step = "reserveGlobal" -> "launch"
    [] step = "launch" -> "addNat"
    [] step = "addNat" -> "addIP"
    [] step = "addIP" -> "plan"
    [] step = "plan" -> "persist"
    [] step = "persist" -> "envGet"
    [] step = "envGet" -> "envPut"

\* Process(), lines 90-133: the step that follows a step that succeeded (the
\* two address reservations, the two network attachments and the Get and Put
\* of addEnvVars are steps of their own).
After(step) ==
  CASE step = "load" -> "download"
    [] step = "download" -> "reserveLocal"
    [] step = "reserveLocal" -> "reserveGlobal"
    [] step = "reserveGlobal" -> "launch"
    [] step = "launch" -> "addIP"
    [] step = "addIP" -> "addNat"
    [] step = "addNat" -> "plan"
    [] step = "plan" -> "persist"
    [] step = "persist" -> "envGet"
    [] step = "envGet" -> "envPut"

Goto(i, next) ==
  /\ pc' = [pc EXCEPT ![i] = next]
  /\ UNCHANGED <<ret, fail, cleanIdx, cleanRet>>

\* -------------------------------------------------------------- the saga
\* A factory that checks the name and forgets the image.
ValidNameOnly(m) == m.name # NoName

\* serviceSetupFunc, line 46: the request names a service and an image.
Valid(m) == ~(m.name = NoName \/ m.image = "")

\* serviceSetupFunc: the factory the registry calls with the request.
serviceSetupFunc(i, m) ==
  /\ pc[i] = "new"
  /\ IF i = 1 THEN TRUE ELSE pc[i - 1] # "new"
  /\ IF Valid(m)
       THEN /\ meta' = [meta EXCEPT ![i] =
                          IF m.label = NoLabel THEN [m EXCEPT !.label = m.name] ELSE m]
            /\ pc' = [pc EXCEPT ![i] = "load"]
            /\ UNCHANGED ret
       ELSE /\ meta' = [meta EXCEPT ![i] = m]
            /\ pc' = [pc EXCEPT ![i] = "rejected"]
            /\ ret' = [ret EXCEPT ![i] = ErrMissing]
  /\ UNCHANGED <<buildVars, db, envdb, localHeld, globalHeld, containers, bridge, nat,
                 service, localIP, globalIP, container, plan, fail, cleanFuncs,
                 envVars, cleanIdx, cleanRet, calls, loaded, startFree>>

\* Process() without its short-circuit.
ProgressedNever(svc) == FALSE

\* Process() that short-circuits on "planned" only.
ProgressedOnlyPlanned(svc) == svc.State = "planned"

\* Process(), line 96: the service has already progressed past this point.
Progressed(svc) == svc.State # "initialized"

\* loadService: data.Get leaves self.service alone on a miss; an empty
\* state becomes "initialized".  Process() stops here, with success, when the
\* state is anything else.
loadService(i) ==
  LET hit == db[meta[i].name] # << >>
      got == IF hit THEN db[meta[i].name][1] ELSE service[i]
      svc == IF got.State = "" THEN [got EXCEPT !.State = "initialized"] ELSE got
  IN  /\ pc[i] = "load"
      /\ service' = [service EXCEPT ![i] = svc]
      /\ loaded' = [loaded EXCEPT ![i] = svc.State]
      /\ startFree' = [startFree EXCEPT ![i] =
                         <<Cardinality(LocalPool \ localHeld),
                           Cardinality(GlobalPool \ globalHeld)>>]
      /\ Call(i, "Get", hit)
      /\ IF Progressed(svc)
           THEN Return(i, Nil, fail[i])
           ELSE Goto(i, After("load"))
      /\ UNCHANGED <<buildVars, db, envdb, localHeld, globalHeld, containers, bridge, nat,
                     meta, localIP, globalIP, container, plan, cleanFuncs, envVars>>

\* downloadImage: docker.ImagePull.
downloadImage(i) ==
  /\ pc[i] = "download"
  /\ \E ok \in BOOLEAN :
       /\ Call(i, "ImagePull", ok)
       /\ IF ok THEN Goto(i, After("download")) ELSE Abort(i, ErrPull)
  /\ UNCHANGED <<buildVars, db, envdb, localHeld, globalHeld, containers, bridge, nat,
                 meta, service, localIP, globalIP, container, plan, cleanFuncs,
                 envVars,
                 loaded, startFree>>

\* reserveIps that drops the error of the pool.
ReserveNeverFailed(r) == FALSE

\* reserveIps, lines 173 and 182: "if err != nil".
ReserveFailed(r) == ~r.ok

\* reserveIps, first half: ip_control.ReserveLocal and its cleanup function.
reserveLocal(i) ==
  /\ pc[i] = "reserveLocal"
  /\ \E r \in ReserveLocal :
       /\ localHeld' = r.held
       /\ localIP' = [localIP EXCEPT ![i] = r.ip]
       /\ Call(i, "ReserveLocal", r.ok)
       /\ IF ReserveFailed(r)
            THEN Abort(i, ErrPoolExhausted) /\ UNCHANGED cleanFuncs
            ELSE Push(i, Closure("ReturnLocal", NoId)) /\ Goto(i, After("reserveLocal"))
  /\ UNCHANGED <<buildVars, db, envdb, globalHeld, containers, bridge, nat, meta, service,
                 globalIP, container, plan, envVars,
                 loaded, startFree>>

\* reserveIps, second half: ip_control.ReserveGlobal and its cleanup function.
reserveGlobal(i) ==
  /\ pc[i] = "reserveGlobal"
  /\ \E r \in ReserveGlobal :
       /\ globalHeld' = r.held
       /\ globalIP' = [globalIP EXCEPT ![i] = r.ip]
       /\ Call(i, "ReserveGlobal", r.ok)
       /\ IF ReserveFailed(r)
            THEN Abort(i, ErrPoolExhausted) /\ UNCHANGED cleanFuncs
            ELSE Push(i, Closure("ReturnGlobal", NoId)) /\ Goto(i, After("reserveGlobal"))
  /\ UNCHANGED <<buildVars, db, envdb, localHeld, containers, bridge, nat, meta, service,
                 localIP, container, plan, envVars,
                 loaded, startFree>>

\* docker assigns the id of a new container; no two containers share one,
\* nor do two containers that one instance launches one after the other.
Launches(i) ==
  Cardinality({k \in DOMAIN calls[i] : calls[i][k] = [op |-> "CreateContainer", ok |-> TRUE]})
NewId(i) == i + NumInst * Launches(i)

\* launchContainer: docker.CreateContainer, which refuses a name in use.
launchContainer(i) ==
  /\ pc[i] = "launch"
  /\ \E ok \in BOOLEAN :
       /\ ok => \A c \in containers : c.Name # meta[i].name
       /\ Call(i, "CreateContainer", ok)
       /\ IF ok
            THEN /\ containers' = containers \cup
                      {[ID |-> NewId(i), Name |-> meta[i].name, IP |-> localIP[i]]}
                 /\ Push(i, Closure("ContainerRemove", NewId(i)))
                 /\ container' = [container EXCEPT ![i] = NewId(i)]
                 /\ Goto(i, After("launch"))
            ELSE /\ Abort(i, ErrCreate)
                 /\ UNCHANGED <<containers, cleanFuncs, container>>
  /\ UNCHANGED <<buildVars, db, envdb, localHeld, globalHeld, bridge, nat, meta, service,
                 localIP, globalIP, plan, envVars,
                 loaded, startFree>>

\* attachNetwork, first half: provider.AddIP and its cleanup function.
addIP(i) ==
  /\ pc[i] = "addIP"
  /\ \E ok \in BOOLEAN :
       /\ Call(i, "AddIP", ok)
       /\ IF ok
            THEN /\ bridge' = bridge \cup {globalIP[i]}
                 /\ Push(i, Closure("RemoveIP", NoId))
                 /\ Goto(i, After("addIP"))
            ELSE /\ Abort(i, ErrAddIP)
                 /\ UNCHANGED <<bridge, cleanFuncs>>
  /\ UNCHANGED <<buildVars, db, envdb, localHeld, globalHeld, containers, nat, meta,
                 service, localIP, globalIP, container, plan, envVars,
                 loaded, startFree>>

\* attachNetwork, second half: provider.AddNat and its cleanup function.
addNat(i) ==
  /\ pc[i] = "addNat"
  /\ \E ok \in BOOLEAN :
       /\ Call(i, "AddNat", ok)
       /\ IF ok
            THEN /\ nat' = nat \cup {<<globalIP[i], localIP[i]>>}
                 /\ Push(i, Closure("RemoveNat", NoId))
                 /\ Goto(i, After("addNat"))
            ELSE /\ Abort(i, ErrAddNat)
                 /\ UNCHANGED <<nat, cleanFuncs>>
  /\ UNCHANGED <<buildVars, db, envdb, localHeld, globalHeld, containers, bridge, meta,
                 service, localIP, globalIP, container, plan, envVars,
                 loaded, startFree>>

\* planService: util.Exec of the plan hook in the container.
planService(i) ==
  /\ pc[i] = "plan"
  /\ \E ok \in BOOLEAN :
       /\ Call(i, "Exec", ok)
       /\ IF ok
            THEN /\ \E p \in PlanOutputs : plan' = [plan EXCEPT ![i] = p]
                 /\ Goto(i, After("plan"))
            ELSE /\ Abort(i, ErrExec)
                 /\ UNCHANGED plan
  /\ UNCHANGED <<buildVars, db, envdb, localHeld, globalHeld, containers, bridge, nat,
                 meta, service, localIP, globalIP, container, cleanFuncs, envVars,
                 loaded, startFree>>

\* net.IP.String(): the text of an address.
IPString(ip) == IF ip = NoIP THEN <<"<nil>">> ELSE <<ToString(ip)>>

\* json.Unmarshal of the plan hook's output into self.service.Plan: fields
\* the document does not mention keep their value; the passwords of the
\* document are whatever the hook printed (here: none).
Unmarshal(p, old) ==
  CASE p = PlanNoUsers -> [ok |-> TRUE, plan |-> old]
    [] p = PlanOneUser ->
         [ok |-> TRUE,
          plan |-> [Users |-> <<[Username |-> UserU, Password |-> << >>]>>,
                    DefaultUser |-> UserU]]
    [] OTHER -> [ok |-> FALSE, plan |-> old]

\* persistService, lines 275-277: every user gets a generated password.
WithPasswords(pl, pw) ==
  [pl EXCEPT !.Users = [k \in DOMAIN pl.Users |-> [pl.Users[k] EXCEPT !.Password = pw[k]]]]

\* persistService: fill in self.service, parse the plan, data.Put.
persistService(i) ==
  LET svc0 == [service[i] EXCEPT !.ID = container[i],
                                 !.Name = meta[i].name,
                                 !.ExternalIP = IPString(globalIP[i]),
                                 !.InternalIP = IPString(localIP[i]),
                                 !.State = "planned",
                                 !.Type = "data"]
      u == Unmarshal(plan[i], svc0.Plan)
  IN  /\ pc[i] = "persist"
      /\ IF ~u.ok
           THEN /\ service' = [service EXCEPT ![i] = svc0]
                /\ Abort(i, ErrParse)
                /\ UNCHANGED <<db, calls>>
           ELSE \E pw \in [DOMAIN u.plan.Users -> Passwords], ok \in BOOLEAN :
                  LET svc1 == [svc0 EXCEPT !.Plan = WithPasswords(u.plan, pw)]
                  IN  /\ service' = [service EXCEPT ![i] = svc1]
                      /\ Call(i, "PutService", ok)
                      /\ IF ok
                           THEN /\ db' = [db EXCEPT ![meta[i].name] = <<svc1>>]
                                /\ Goto(i, After("persist"))
                           ELSE /\ Abort(i, ErrPutService)
                                /\ UNCHANGED db
      /\ UNCHANGED <<buildVars, envdb, localHeld, globalHeld, containers, bridge, nat, meta,
                     localIP, globalIP, container, plan, cleanFuncs, envVars,
                 loaded, startFree>>

\* strings.ToUpper and strings.Replace(s, ".", "_", -1), character by character.
UpperChar(c) ==
  CASE c = "d" -> "D" [] c = "b" -> "B" [] c = "w" -> "W" [] c = "u" -> "U"
    [] c = "v" -> "V"
    [] OTHER -> c
ToUpper(str) == [k \in DOMAIN str |-> UpperChar(str[k])]
ReplaceDot(str) == [k \in DOMAIN str |-> IF str[k] = "." THEN "_" ELSE str[k]]
Prefix(name) == ToUpper(ReplaceDot(name))

\* An assignment that starts a new map with the one key.
SetVarAlone(env, key, value) == [x \in {key} |-> value]

\* envVars[key] = value
SetVar(env, key, value) ==
  [x \in DOMAIN env \cup {key} |-> IF x = key THEN value ELSE env[x]]

KeyHost(prefix) == prefix \o <<"_", "H", "O", "S", "T">>
\* The key of a user's password without the upper-casing of the name.
KeyUserPassRaw(prefix, username) == prefix \o <<"_">> \o username \o <<"_", "P", "A", "S", "S">>

KeyUserPass(prefix, username) == prefix \o <<"_">> \o ToUpper(username) \o <<"_", "P", "A", "S", "S">>
KeyUser(prefix) == prefix \o <<"_", "U", "S", "E", "R">>
KeyPass(prefix) == prefix \o <<"_", "P", "A", "S", "S">>
KeyUsers(prefix) == prefix \o <<"_", "U", "S", "E", "R", "S">>

\* strings.Join(users, " ")
RECURSIVE Join(_)
Join(users) ==
  IF Len(users) = 0 THEN << >>
  ELSE IF Len(users) = 1 THEN users[1]
  ELSE users[1] \o <<" ">> \o Join(Tail(users))

\* addEnvVars, lines 325-339: the loop over the users of the plan.
RECURSIVE UserVars(_, _, _, _)
UserVars(env, prefix, pl, k) ==
  IF k > Len(pl.Users) THEN env
  ELSE LET user == pl.Users[k]
           e1 == SetVar(env, KeyUserPass(prefix, user.Username), user.Password)
           e2 == IF user.Username = pl.DefaultUser
                   THEN SetVar(SetVar(e1, KeyUser(prefix), user.Username),
                               KeyPass(prefix), user.Password)
                   ELSE e1
       IN  UserVars(e2, prefix, pl, k + 1)

\* An addEnvVars that writes the list of users whether there are any or not.
UsersListedAlways(users) == TRUE

\* addEnvVars, line 342: "if len(users) > 0".
UsersListed(users) == Len(users) > 0

\* addEnvVars, lines 298-344: the variables of one service added to a table.
Project(env, svc) ==
  LET prefix == Prefix(svc.Name)
      e0 == SetVar(env, KeyHost(prefix), svc.InternalIP)
      e1 == UserVars(e0, prefix, svc.Plan, 1)
      users == [k \in DOMAIN svc.Plan.Users |-> svc.Plan.Users[k].Username]
  IN  IF UsersListed(users) THEN SetVar(e1, KeyUsers(prefix), Join(users)) ELSE e1

\* addEnvVars, first half: data.Get of the table, then the variables are set
\* in the local copy.
addEnvVarsGet(i) ==
  /\ pc[i] = "envGet"
  /\ envVars' = [envVars EXCEPT ![i] = Project(envdb, service[i])]
  /\ Call(i, "GetEnv", TRUE)
  /\ Goto(i, After("envGet"))
  /\ UNCHANGED <<buildVars, db, envdb, localHeld, globalHeld, containers, bridge, nat, meta,
                 service, localIP, globalIP, container, plan, cleanFuncs,
                 loaded, startFree>>

\* addEnvVars, second half: data.Put of the local copy; then Process()
\* returns nil.
addEnvVarsPut(i) ==
  /\ pc[i] = "envPut"
  /\ \E ok \in BOOLEAN :
       /\ Call(i, "PutEnv", ok)
       /\ IF ok
            THEN envdb' = envVars[i] /\ Return(i, Nil, fail[i])
            ELSE UNCHANGED envdb /\ Abort(i, ErrPutEnv)
  /\ UNCHANGED <<buildVars, db, localHeld, globalHeld, containers, bridge, nat, meta,
                 service, localIP, globalIP, container, plan, cleanFuncs, envVars,
                 loaded, startFree>>

\* clean() that unwinds from the last function pushed.
CleanFuncReverse(i, k) == cleanFuncs[i][Len(cleanFuncs[i]) + 1 - k]

\* clean(), line 69: the k-th function the range loop calls.
CleanFunc(i, k) == cleanFuncs[i][k]

\* A second closure that returns the local address once more.
ReturnGlobalArgLocal(i) == localIP[i]

\* The address a "return this address" closure reads when it is called.
ReturnLocalArg(i) == localIP[i]
ReturnGlobalArg(i) == globalIP[i]

\* The outcomes a cleanup function can have when it is called now: each of
\* them may return an error; ReturnIP of an address that is not held and the
\* removal of a container that does not exist must.
CleanOutcomes(i, f) ==
  CASE f.f = "ReturnLocal" ->
         IF ReturnIPOk(ReturnLocalArg(i)) THEN BOOLEAN ELSE {FALSE}
    [] f.f = "ReturnGlobal" ->
         IF ReturnIPOk(ReturnGlobalArg(i)) THEN BOOLEAN ELSE {FALSE}
    [] f.f = "ContainerRemove" ->
         IF \E c \in containers : c.ID = f.id THEN BOOLEAN ELSE {FALSE}
    [] OTHER -> BOOLEAN

\* What the call of a cleanup function does to the pools, docker and the
\* provider.
CleanEffect(i, f, ok) ==
  LET ip == IF f.f = "ReturnLocal" THEN ReturnLocalArg(i) ELSE ReturnGlobalArg(i)
      returns == ok /\ f.f \in {"ReturnLocal", "ReturnGlobal"}
  IN  /\ localHeld' = IF returns THEN ReturnIPLocal(ip) ELSE localHeld
      /\ globalHeld' = IF returns THEN ReturnIPGlobal(ip) ELSE globalHeld
      /\ containers' = IF ok /\ f.f = "ContainerRemove"
                         THEN {c \in containers : c.ID # f.id} ELSE containers
      /\ bridge' = IF ok /\ f.f = "RemoveIP"
                     THEN bridge \ {globalIP[i]} ELSE bridge
      /\ nat' = IF ok /\ f.f = "RemoveNat"
                  THEN nat \ {<<globalIP[i], localIP[i]>>} ELSE nat

\* Process(), line 88: "defer self.clean()" drops what clean() returns, so
\* the caller gets the error of the step.
ProcessResult(stepErr, cleanErr) == stepErr

\* A loop that goes on to the next function whatever the last one returned.
CleanGoesOn(ok) == FALSE

\* clean(), lines 70-72: "if err := cleanF(); err != nil { return err }".
CleanStops(ok) == ~ok

\* clean(): one turn of the loop over self.cleanFuncs; the loop ends at the
\* first function that returns an error, or after the last one.
clean(i) ==
  /\ pc[i] = "clean"
  /\ LET f == CleanFunc(i, cleanIdx[i])
     IN  \E ok \in CleanOutcomes(i, f) :
           /\ CleanEffect(i, f, ok)
           /\ Call(i, f.f, ok)
           /\ IF CleanStops(ok) \/ cleanIdx[i] = Len(cleanFuncs[i])
                THEN LET r == IF CleanStops(ok) THEN CleanErr[f.f] ELSE Nil
                     IN  /\ cleanRet' = [cleanRet EXCEPT ![i] = r]
                         /\ ret' = [ret EXCEPT ![i] = ProcessResult(@, r)]
                         /\ pc' = [pc EXCEPT ![i] = "done"]
                         /\ UNCHANGED cleanIdx
                ELSE /\ cleanIdx' = [cleanIdx EXCEPT ![i] = @ + 1]
                     /\ UNCHANGED <<cleanRet, ret, pc>>
  /\ UNCHANGED <<buildVars, db, envdb, meta, service, localIP, globalIP, container, plan,
                 fail, cleanFuncs, envVars,
                 loaded, startFree>>

\* ------------------------------------------------------- the specification
Next ==
  \E i \in Inst :
    \/ \E m \in Metas : serviceSetupFunc(i, m)
    \/ loadService(i)
    \/ downloadImage(i)
    \/ reserveLocal(i)
    \/ reserveGlobal(i)
    \/ launchContainer(i)
    \/ addIP(i)
    \/ addNat(i)
    \/ planService(i)
    \/ persistService(i)
    \/ addEnvVarsGet(i)
    \/ addEnvVarsPut(i)
    \/ clean(i)

Spec == Init /\ [][Next]_vars

\* ------------------------------------------- Process() on a kept instance
\* The invocations of Process() an instance has begun: each begins with the
\* Get of loadService.
Runs(i) == Cardinality({k \in DOMAIN calls[i] : calls[i][k].op = "Get"})

\* The caller invokes Process() once more on the instance it holds.  Process()
\* starts at loadService with the fields of the struct as the invocation
\* before left them: nothing in Process() or clean() resets self.fail,
\* self.cleanFuncs, self.service or the addresses.
Reinvoke(i) ==
  /\ pc[i] = "done"
  /\ Runs(i) < MaxRuns
  /\ pc' = [pc EXCEPT ![i] = "load"]
  /\ ret' = [ret EXCEPT ![i] = Pending]
  /\ cleanRet' = [cleanRet EXCEPT ![i] = Pending]
  /\ UNCHANGED <<buildVars, db, envdb, localHeld, globalHeld, containers, bridge, nat, meta,
                 service, localIP, globalIP, container, plan, fail, cleanFuncs,
                 envVars, cleanIdx, calls, loaded, startFree>>

\* The instance whose caller keeps it and invokes it again.
Kept == {1}

NextReuse ==
  \E i \in Kept :
    \/ \E m \in Metas : serviceSetupFunc(i, m)
    \/ loadService(i)
    \/ downloadImage(i)
    \/ reserveLocal(i)
    \/ reserveGlobal(i)
    \/ launchContainer(i)
    \/ addIP(i)
    \/ addNat(i)
    \/ planService(i)
    \/ persistService(i)
    \/ addEnvVarsGet(i)
    \/ addEnvVarsPut(i)
    \/ clean(i)
    \/ Reinvoke(i)

\* One instance, constructed once and invoked up to MaxRuns times.
SpecReuse == Init /\ [][NextReuse]_vars

\* ------------------------------------------------------------ the claims
\* The history of an instance, read as the claims speak of it.
Ops(i) == [k \in DOMAIN calls[i] |-> calls[i][k].op]
Did(i, op) == \E k \in DOMAIN calls[i] : calls[i][k].op = op
Succeeded(i, op) == \E k \in DOMAIN calls[i] : calls[i][k] = [op |-> op, ok |-> TRUE]
Failed(i, op) == \E k \in DOMAIN calls[i] : calls[i][k] = [op |-> op, ok |-> FALSE]
Compensations == {"ReturnLocal", "ReturnGlobal", "ContainerRemove", "RemoveIP", "RemoveNat"}
Invoked(i) == pc[i] \notin {"new", "rejected", "load"}

\* An instance holds an address from its reservation until it returns it.
HoldsLocal(i) == Succeeded(i, "ReserveLocal") /\ ~Succeeded(i, "ReturnLocal")
HoldsGlobal(i) == Succeeded(i, "ReserveGlobal") /\ ~Succeeded(i, "ReturnGlobal")

\* C1  Idempotent resume: a Process() that loads a Service whose state is not
\* "initialized" has returned success when it leaves loadService, and its only
\* call was the Get of the record: no image pull, no reservation, no container,
\* no AddIP/AddNat, no exec, no store write and no cleanup function.
C1_IdempotentResume ==
  \A i \in Inst :
    (Invoked(i) /\ loaded[i] # "initialized") =>
      /\ pc[i] = "done"
      /\ ret[i] = Nil
      /\ Ops(i) = <<"Get">>
      /\ localIP[i] = NoIP /\ globalIP[i] = NoIP /\ container[i] = NoId
      /\ cleanFuncs[i] = << >>
      /\ \A c \in containers : c.ID # NewId(i)

\* C1 witness: a second saga for a service that a first saga has planned.
C1_Witness ==
  \E i, j \in Inst :
    /\ i # j
    /\ meta[i].name = meta[j].name
    /\ Succeeded(j, "PutService")
    /\ loaded[i] = "planned"
    /\ pc[i] = "done"

\* C2  Construction validation: a request whose name or image is empty gets
\* the validation error and no processor; that instance never makes a call,
\* reserves no address, creates nothing and registers no cleanup function.
C2_ConstructionValidation ==
  \A i \in Inst :
    (pc[i] # "new" /\ (meta[i].name = NoName \/ meta[i].image = "")) =>
      /\ pc[i] = "rejected"
      /\ ret[i] = ErrMissing
      /\ calls[i] = << >>
      /\ localIP[i] = NoIP /\ globalIP[i] = NoIP /\ container[i] = NoId
      /\ cleanFuncs[i] = << >>
      /\ loaded[i] = "none"

\* C2 witness: a request without image was rejected while nothing is held,
\* exists or is stored by any saga.
C2_Witness ==
  \E i \in Inst :
    /\ pc[i] = "rejected"
    /\ meta[i].name # NoName
    /\ meta[i].image = ""
    /\ \A j \in Inst : calls[j] = << >>

\* C3  Pool exclusivity: an address that a saga holds is marked held in its
\* pool (so the pool does not hand it out), and no two sagas hold the same
\* address at the same time.
C3_PoolExclusivity ==
  /\ \A i \in Inst : HoldsLocal(i) => localIP[i] \in localHeld
  /\ \A i \in Inst : HoldsGlobal(i) => globalIP[i] \in globalHeld
  /\ \A i, j \in Inst :
       (i # j /\ HoldsLocal(i) /\ HoldsLocal(j)) => localIP[i] # localIP[j]
  /\ \A i, j \in Inst :
       (i # j /\ HoldsGlobal(i) /\ HoldsGlobal(j)) => globalIP[i] # globalIP[j]

\* C3 witness: sagas for two services; one has rolled back and returned both
\* addresses, the other holds addresses it was handed afterwards or meanwhile.
C3_Witness ==
  \E i, j \in Inst :
    /\ meta[i].name # meta[j].name
    /\ Succeeded(i, "ReturnLocal") /\ Succeeded(i, "ReturnGlobal")
    /\ HoldsLocal(j) /\ HoldsGlobal(j)
    /\ localIP[i] = localIP[j]

\* C4  Pool exhaustion: a reservation made while every address of the pool is
\* held fails with the exhaustion error and hands out nothing; the saga that
\* made it fails there and never creates a container.
C4_Exhausted(i) == Failed(i, "ReserveLocal") \/ Failed(i, "ReserveGlobal")

C4_PoolExhaustion ==
  /\ [] \A i \in Inst :
          C4_Exhausted(i) =>
            /\ ret[i] = ErrPoolExhausted
            /\ fail[i]
            /\ pc[i] \in {"clean", "done"}
            /\ ~Did(i, "CreateContainer")
            /\ container[i] = NoId
  /\ [][ \A i \in Inst :
           /\ (pc[i] = "reserveLocal" /\ pc'[i] # pc[i] /\ localHeld = LocalPool) =>
                /\ Failed(i, "ReserveLocal")'
                /\ localIP'[i] = NoIP
                /\ localHeld' = localHeld
                /\ ret'[i] = ErrPoolExhausted
           /\ (pc[i] = "reserveGlobal" /\ pc'[i] # pc[i] /\ globalHeld = GlobalPool) =>
                /\ Failed(i, "ReserveGlobal")'
                /\ globalIP'[i] = NoIP
                /\ globalHeld' = globalHeld
                /\ ret'[i] = ErrPoolExhausted ]_vars

\* C4 witness: the pool of N addresses has been handed out to other sagas and
\* at start, and the next reservation failed; the saga is done.
C4_Witness ==
  \E i, j \in Inst :
    /\ i # j
    /\ HoldsLocal(j)
    /\ localHeld = LocalPool
    /\ Failed(i, "ReserveLocal")
    /\ pc[i] = "done"

\* The cleanup functions an instance has called, in the order of the calls.
IsCompensation(op) == op \in Compensations
CompOps(i) == SelectSeq(Ops(i), IsCompensation)
CompCalls(i) == SelectSeq(calls[i], LAMBDA c : c.op \in Compensations)
IsPrefix(a, b) == Len(a) <= Len(b) /\ a = SubSeq(b, 1, Len(a))

\* The acquisitions of Process() in their order, each with its compensation.
Acquisitions == <<"ReserveLocal", "ReserveGlobal", "CreateContainer", "AddIP", "AddNat">>
PushOrder == <<"ReturnLocal", "ReturnGlobal", "ContainerRemove", "RemoveIP", "RemoveNat">>
Acquired(i) == {k \in 1..5 : Succeeded(i, Acquisitions[k])}
Finished(i) == pc[i] = "done" /\ Invoked(i)

ErrOfOp ==
  [ImagePull |-> ErrPull, ReserveLocal |-> ErrPoolExhausted,
   ReserveGlobal |-> ErrPoolExhausted, CreateContainer |-> ErrCreate,
   AddIP |-> ErrAddIP, AddNat |-> ErrAddNat, Exec |-> ErrExec,
   PutService |-> ErrPutService, PutEnv |-> ErrPutEnv]
ForwardFailures(i) == {k \in DOMAIN calls[i] : ~calls[i][k].ok /\ calls[i][k].op \in DOMAIN ErrOfOp}
ReturnsStepError(i) ==
  /\ Cardinality(ForwardFailures(i)) <= 1
  /\ \A k \in ForwardFailures(i) : ret[i] = ErrOfOp[calls[i][k].op]
  /\ ForwardFailures(i) = {} => ret[i] = ErrParse
FailedRun(i) == Finished(i) /\ ret[i] # Nil

\* C6 as the spec states it: a failed Process() returns the error of the
\* step, and has called the compensation of every acquisition that succeeded
\* and of no other.
C6_Original ==
  \A i \in Inst :
    FailedRun(i) =>
      /\ ReturnsStepError(i)
      /\ {k \in 1..5 : Did(i, PushOrder[k])} = Acquired(i)

\* C6  Failure triggers compensation, amended: a failed Process() returns the
\* error of the step that failed; before it returns, clean() has called the
\* compensations of the acquisitions that succeeded, in the order of the
\* acquisitions, up to and including the first compensation that fails (all
\* of them when none fails), and no compensation of an acquisition that did
\* not succeed.
C6_FailureCompensates ==
  \A i \in Inst :
    FailedRun(i) =>
      LET expected == [k \in 1..Cardinality(Acquired(i)) |-> PushOrder[k]]
          done == CompCalls(i)
      IN  /\ ReturnsStepError(i)
          /\ fail[i]
          /\ Acquired(i) = 1..Cardinality(Acquired(i))
          /\ IsPrefix(CompOps(i), expected)
          /\ \A k \in 1..(Len(done) - 1) : done[k].ok
          /\ Len(done) < Len(expected) => ~done[Len(done)].ok
          /\ Len(expected) > 0 => Len(done) > 0

\* C6 witness: ReserveGlobal failed after ReserveLocal succeeded, and the
\* local address was returned.
C6_Witness ==
  \E i \in Inst :
    /\ FailedRun(i)
    /\ Succeeded(i, "ReserveLocal") /\ Failed(i, "ReserveGlobal")
    /\ CompCalls(i) = <<[op |-> "ReturnLocal", ok |-> TRUE]>>
    /\ localIP[i] \notin localHeld

\* C7  Compensation order: the cleanup functions are called in the order in
\* which they were pushed: return local, return global, remove container,
\* remove bridge address, remove NAT.
C7_CompensationOrder ==
  \A i \in Inst :
    /\ IsPrefix(CompOps(i), PushOrder)
    /\ IsPrefix(CompOps(i), [k \in DOMAIN cleanFuncs[i] |-> cleanFuncs[i][k].f])

\* C7 witness: a cleanup pass that has called all five functions.
C7_Witness == \E i \in Inst : CompOps(i) = PushOrder /\ pc[i] = "done"

\* C8 as the spec states it: the caller of Process() can tell a rollback that
\* failed from one that went through: two runs that return the same error
\* agree on whether clean() returned an error.
C8_Original ==
  \A i, j \in Inst :
    (FailedRun(i) /\ FailedRun(j) /\ ret[i] = ret[j]) =>
      (cleanRet[i] = Nil <=> cleanRet[j] = Nil)

\* The state of a record of the store; of no record, the empty state.
StateOf(d) == IF d = << >> THEN "" ELSE d[1].State
BeforePersist == <<"Get", "ImagePull", "ReserveLocal", "ReserveGlobal",
                   "CreateContainer", "AddIP", "AddNat", "Exec">>
AllOkBeforePersist(i) ==
  /\ Len(calls[i]) >= 8
  /\ SubSeq(Ops(i), 1, 8) = BeforePersist
  /\ \A k \in 2..8 : calls[i][k].ok

\* C9  Persistence happens once, at the end: a Process() calls the Put of the
\* Service at most once, and only after the load, the pull, both
\* reservations, the launch, AddIP, AddNat and the exec have succeeded; a
\* record of the store changes only in such a Put.
C9_PersistOnce ==
  /\ [] \A i \in Inst :
          /\ Cardinality({k \in DOMAIN calls[i] : calls[i][k].op = "PutService"}) <= 1
          /\ Did(i, "PutService") => AllOkBeforePersist(i) /\ Ops(i)[9] = "PutService"
          /\ (FailedRun(i) /\ ~AllOkBeforePersist(i)) => ~Did(i, "PutService")
  /\ [][ \A n \in Names :
           db'[n] # db[n] =>
             \E i \in Inst :
               /\ meta[i].name = n
               /\ pc[i] = "persist"
               /\ AllOkBeforePersist(i)
               /\ ~Did(i, "PutService")
               /\ Succeeded(i, "PutService")'
               /\ db'[n] = <<service'[i]>> ]_vars

\* C9 witness: a run that failed in AddNat next to a run that persisted, for
\* the same service.
C9_Witness ==
  \E i, j \in Inst :
    /\ meta[i].name = meta[j].name
    /\ FailedRun(i) /\ Failed(i, "AddNat")
    /\ Succeeded(j, "PutService")
    /\ db[meta[j].name] = <<service[j]>>

Usernames == {<<"u">>, <<"U">>, <<"v">>}
PasswordAt(k) == <<"p", ToString(k)>>
EnvPlan(names, def) ==
  [Users |-> [k \in DOMAIN names |-> [Username |-> names[k], Password |-> PasswordAt(k)]],
   DefaultUser |-> def]
EnvPlans ==
  {EnvPlan(ns, d) : ns \in UNION {[1..n -> Usernames] : n \in 0..MaxUsers},
                    d \in {<< >>} \cup Usernames}

\* The EnvVars table of the application before the sagas get to it: empty,
\* or with a variable of another origin and stale variables of service NameA.
Old == <<"o", "l", "d">>
StaleTable ==
  [x \in {<<"X">>, KeyHost(Prefix(NameA)), KeyUsers(Prefix(NameA)),
          KeyUserPass(Prefix(NameA), UserU)} |-> Old]
EnvTables == {<< >>, StaleTable}

PlanHooked == "{users:[...],default_user:...}"
MetaOf(n) == [name |-> n, image |-> "img", label |-> n]
AllPushed(id) ==
  <<Closure("ReturnLocal", NoId), Closure("ReturnGlobal", NoId),
    Closure("ContainerRemove", id), Closure("RemoveIP", NoId),
    Closure("RemoveNat", NoId)>>
CallsBeforeEnv ==
  [k \in 1..9 |->
     [op |-> <<"Get", "ImagePull", "ReserveLocal", "ReserveGlobal", "CreateContainer",
               "AddIP", "AddNat", "Exec", "PutService">>[k],
      ok |-> TRUE]]

\* Process() between persistService and addEnvVars: the sagas of one of the
\* sets in Acts, each for a service of its own, have reserved their
\* addresses, launched and bridged their container, and stored their Service
\* as "planned" with one of the plans in Plans; saga i holds the i-th address
\* of each pool.  The other instances are not constructed.
InitAfterPersist(Acts, Plans) ==
  \E act \in Acts :
    \E nm \in [act -> Names], pl \in [act -> Plans] :
      LET svc(i) == [ID |-> i, Name |-> nm[i],
                     ExternalIP |-> IPString(100 + i), InternalIP |-> IPString(i),
                     State |-> "planned", Type |-> "data", Plan |-> pl[i]]
      IN  /\ \A i, j \in act : i # j => nm[i] # nm[j]
          /\ db = [n \in Names |->
                     IF \E i \in act : nm[i] = n
                       THEN <<svc(CHOOSE i \in act : nm[i] = n)>>
                       ELSE << >>]
          /\ envdb \in EnvTables
          /\ localHeld = act
          /\ globalHeld = {100 + i : i \in act}
          /\ containers = {[ID |-> i, Name |-> nm[i], IP |-> i] : i \in act}
          /\ bridge = {100 + i : i \in act}
          /\ nat = {<<100 + i, i>> : i \in act}
          /\ pc = [i \in Inst |-> IF i \in act THEN "envGet" ELSE "new"]
          /\ meta = [i \in Inst |-> IF i \in act THEN MetaOf(nm[i]) ELSE NoMeta]
          /\ service = [i \in Inst |-> IF i \in act THEN svc(i) ELSE ZeroService]
          /\ localIP = [i \in Inst |-> IF i \in act THEN i ELSE NoIP]
          /\ globalIP = [i \in Inst |-> IF i \in act THEN 100 + i ELSE NoIP]
          /\ container = [i \in Inst |-> IF i \in act THEN i ELSE NoId]
          /\ plan = [i \in Inst |-> IF i \in act THEN PlanHooked ELSE ""]
          /\ fail = [i \in Inst |-> FALSE]
          /\ cleanFuncs = [i \in Inst |-> IF i \in act THEN AllPushed(i) ELSE << >>]
          /\ envVars = [i \in Inst |-> << >>]
          /\ cleanIdx = [i \in Inst |-> 0]
          /\ ret = [i \in Inst |-> Pending]
          /\ cleanRet = [i \in Inst |-> Pending]
          /\ calls = [i \in Inst |-> IF i \in act THEN CallsBeforeEnv ELSE << >>]
          /\ loaded = [i \in Inst |-> IF i \in act THEN "initialized" ELSE "none"]
          /\ startFree = [i \in Inst |-> IF i \in act THEN <<PoolSize, PoolSize>> ELSE <<0, 0>>]
          /\ BuildIdle

NextEnv ==
  \E i \in Inst :
    \/ addEnvVarsGet(i)
    \/ addEnvVarsPut(i)
    \/ clean(i)

\* One saga from addEnvVars on, with any of the plans.
InitEnv == InitAfterPersist({{i} : i \in Inst \cap LocalPool}, EnvPlans)
SpecEnv == InitEnv /\ [][NextEnv]_vars

\* Two sagas from addEnvVars on, in every interleaving of their steps; their
\* plans list one user at most.
PairPlans == {p \in EnvPlans : Len(p.Users) <= 1 /\ p.DefaultUser \in {<< >>, UserU}}
InitPair ==
  InitAfterPersist({a \in SUBSET (Inst \cap LocalPool) : Cardinality(a) = 2}, PairPlans)
SpecPair == InitPair /\ [][NextEnv]_vars

\* The calls of the invocation of Process() that an instance is in, or was in
\* last: those from its last Get on.
RunStart(i) ==
  IF Runs(i) = 0 THEN 1
  ELSE CHOOSE k \in DOMAIN calls[i] :
         /\ calls[i][k].op = "Get"
         /\ \A m \in DOMAIN calls[i] : m > k => calls[i][m].op # "Get"
RunCalls(i) == SubSeq(calls[i], RunStart(i), Len(calls[i]))
RunCompensations(i) == SelectSeq(RunCalls(i), LAMBDA c : c.op \in Compensations)

\* C11  The compensation log is discarded on success: an invocation of
\* Process() that returns success has called no cleanup function, also when
\* it is a later invocation on an instance whose earlier invocation failed.
C11_Original ==
  \A i \in Inst :
    (pc[i] = "done" /\ ret[i] = Nil) => RunCompensations(i) = << >>

\* ---------------------------------------------- the environment variables
\* The keys as the claims spell them: the prefix of each service and the
\* upper-case form of each username written out, not computed.
SpelledPrefix(n) == IF n = NameA THEN <<"D", "_", "B">> ELSE <<"W">>
SpelledUpper(u) == IF u = <<"v">> THEN <<"V">> ELSE <<"U">>
HostKey(n) == SpelledPrefix(n) \o <<"_", "H", "O", "S", "T">>
UserPassKey(n, u) == SpelledPrefix(n) \o <<"_">> \o SpelledUpper(u) \o <<"_", "P", "A", "S", "S">>
UserKey(n) == SpelledPrefix(n) \o <<"_", "U", "S", "E", "R">>
PassKey(n) == SpelledPrefix(n) \o <<"_", "P", "A", "S", "S">>
UsersKey(n) == SpelledPrefix(n) \o <<"_", "U", "S", "E", "R", "S">>

\* The usernames of a plan in plan order with a space between them.
RECURSIVE Spaced(_, _)
Spaced(users, k) ==
  IF k = 1 THEN users[1].Username
  ELSE Spaced(users, k - 1) \o <<" ">> \o users[k].Username

\* The last user of the list that satisfies a condition.
LastWith(users, Cond(_)) ==
  users[CHOOSE k \in DOMAIN users :
          Cond(users[k]) /\ \A m \in DOMAIN users : (m > k) => ~Cond(users[m])]

Has(env, key, value) == key \in DOMAIN env /\ env[key] = value
DefaultListed(pl) == \E k \in DOMAIN pl.Users : pl.Users[k].Username = pl.DefaultUser

\* The table addEnvVars is about to write: no saga has written the table since
\* this one read it.
Projecting(i) == pc[i] = "envPut" /\ \A j \in Inst : ~Succeeded(j, "PutEnv")

\* C12 as the spec states it: the table read (env0) and the table with the
\* variables of the service set (env1) differ in exactly these keys: HOST;
\* every user's <NAME>_PASS with that user's password; USER and PASS of the
\* default user whenever a default user is declared; USERS when there is a
\* user.
C12_AsStated(env0, env1, svc) ==
  LET n == svc.Name
      pl == svc.Plan
      set == {HostKey(n)}
               \cup {UserPassKey(n, pl.Users[k].Username) : k \in DOMAIN pl.Users}
               \cup (IF pl.DefaultUser # << >> THEN {UserKey(n), PassKey(n)} ELSE {})
               \cup (IF Len(pl.Users) > 0 THEN {UsersKey(n)} ELSE {})
  IN  /\ Has(env1, HostKey(n), svc.InternalIP)
      /\ \A k \in DOMAIN pl.Users :
           Has(env1, UserPassKey(n, pl.Users[k].Username), pl.Users[k].Password)
      /\ pl.DefaultUser # << >> =>
           /\ Has(env1, UserKey(n), pl.DefaultUser)
           /\ PassKey(n) \in DOMAIN env1
           /\ \A k \in DOMAIN pl.Users :
                pl.Users[k].Username = pl.DefaultUser => env1[PassKey(n)] = pl.Users[k].Password
      /\ Len(pl.Users) > 0 => Has(env1, UsersKey(n), Spaced(pl.Users, Len(pl.Users)))
      /\ \A x \in DOMAIN env1 \ set : Has(env0, x, env1[x])

Derived(env1, svc) ==
  LET n == svc.Name
      pl == svc.Plan
  IN  /\ Has(env1, HostKey(n), svc.InternalIP)
      /\ \A k \in DOMAIN pl.Users :
           Has(env1, UserPassKey(n, pl.Users[k].Username),
               LastWith(pl.Users,
                        LAMBDA u : SpelledUpper(u.Username) = SpelledUpper(pl.Users[k].Username)).Password)
      /\ DefaultListed(pl) =>
           /\ Has(env1, UserKey(n), pl.DefaultUser)
           /\ Has(env1, PassKey(n),
                  LastWith(pl.Users, LAMBDA u : u.Username = pl.DefaultUser).Password)
      /\ Len(pl.Users) > 0 => Has(env1, UsersKey(n), Spaced(pl.Users, Len(pl.Users)))

\* The keys addEnvVars sets for a service, as amended.
DerivedKeys(svc) ==
  LET n == svc.Name
      pl == svc.Plan
  IN  {HostKey(n)}
        \cup {UserPassKey(n, pl.Users[k].Username) : k \in DOMAIN pl.Users}
        \cup (IF DefaultListed(pl) THEN {UserKey(n), PassKey(n)} ELSE {})
        \cup (IF Len(pl.Users) > 0 THEN {UsersKey(n)} ELSE {})

ForwardOrder ==
  <<"Get", "ImagePull", "ReserveLocal", "ReserveGlobal", "CreateContainer",
    "AddIP", "AddNat", "Exec", "PutService", "GetEnv", "PutEnv">>
ForwardCalls(i) == SelectSeq(calls[i], LAMBDA c : c.op \notin Compensations)

\* C15  Strict step order with short-circuit: the forward operations of a
\* run are an initial part of load, image pull, ReserveLocal, ReserveGlobal,
\* create container, AddIP, AddNat, plan exec, write of the Service, read and
\* write of the EnvVars, each at most once; an operation is performed only
\* when every operation before it succeeded (the load succeeds also when it
\* finds no record); no forward operation follows one that failed, nor a
\* cleanup function.
C15_StepOrder ==
  \A i \in Inst :
    LET fwd == ForwardCalls(i)
    IN  /\ Len(fwd) <= Len(ForwardOrder)
        /\ \A k \in DOMAIN fwd : fwd[k].op = ForwardOrder[k]
        /\ \A k \in DOMAIN fwd : (1 < k /\ k < Len(fwd)) => fwd[k].ok
        /\ (\E k \in DOMAIN fwd : k > 1 /\ ~fwd[k].ok) => pc[i] \in {"clean", "done"}
        /\ calls[i] = fwd \o CompCalls(i)

\* C15 witness: one run went through all the operations, another stopped at
\* the reservation that failed.
C15_Witness ==
  \E i, j \in Inst :
    /\ pc[i] = "done" /\ Ops(i) = ForwardOrder /\ \A k \in 2..11 : calls[i][k].ok
    /\ pc[j] = "done" /\ Ops(j) = <<"Get", "ImagePull", "ReserveLocal">>
    /\ Failed(j, "ReserveLocal")

\* C16  Cleanup aborts on the first failing compensation: when the k-th
\* cleanup function of the list returns an error it is the last one called,
\* clean() returns its error, the functions pushed after it have not been
\* called, and the k-1 pushed before it have been called once each, in the
\* order of the list.
C16_CleanupAborts ==
  \A i \in Inst :
    LET done == CompCalls(i)
    IN  \A k \in DOMAIN done :
          ~done[k].ok =>
            /\ k = Len(done)
            /\ pc[i] = "done"
            /\ cleanRet[i] = CleanErr[done[k].op]
            /\ k <= Len(cleanFuncs[i])
            /\ \A m \in 1..k : done[m].op = cleanFuncs[i][m].f
            /\ \A m \in 1..(k - 1) : done[m].ok

\* C16 witness: of five cleanup functions the third failed, after the two
\* before it had been called; the last two were not.
C16_Witness ==
  \E i \in Inst :
    /\ pc[i] = "done"
    /\ Len(cleanFuncs[i]) = 5
    /\ CompCalls(i) = <<[op |-> "ReturnLocal", ok |-> TRUE],
                        [op |-> "ReturnGlobal", ok |-> TRUE],
                        [op |-> "ContainerRemove", ok |-> FALSE]>>

\* A run whose plan did not parse: the exec succeeded, persistService failed
\* and had not called the Put of the Service.
ParseFailed(i) ==
  /\ Succeeded(i, "Exec")
  /\ ~Did(i, "PutService")
  /\ pc[i] \in {"clean", "done"}

\* What Process() returns for a plan that does not parse, and what it wrote.
ParseErrorReturned(i) ==
  /\ Len(ret[i]) = 2
  /\ ret[i][1] = "persistService:"
  /\ ret[i][2] = "invalid plan"
  /\ ~Did(i, "GetEnv") /\ ~Did(i, "PutEnv")

\* C17 as the spec states it: after a plan that did not parse, Process() has
\* returned the error with the stage in front, has written neither the
\* Service nor the EnvVars, and all five compensations have been called.
C17_Original ==
  \A i \in Inst :
    (ParseFailed(i) /\ pc[i] = "done") =>
      /\ ParseErrorReturned(i)
      /\ \A k \in 1..5 : Did(i, PushOrder[k])

\* C17  Plan parse failure is a hard error, amended: when the output of the
\* plan hook does not parse, Process() returns the parse error with the stage
\* "persistService:" in front; that step leaves the Service records and the
\* EnvVars table of the store as they are and the run writes neither later;
\* the cleanup calls the compensations of the local address, the global
\* address, the container, the bridge address and the NAT mapping in this
\* order, up to and including the first that fails, all five when none does.
C17_ParseFailure ==
  /\ [] \A i \in Inst :
          ParseFailed(i) =>
            /\ ParseErrorReturned(i)
            /\ fail[i]
            /\ pc[i] = "done" =>
                 LET done == CompCalls(i)
                 IN  /\ Len(done) \in 1..5
                     /\ \A k \in DOMAIN done : done[k].op = PushOrder[k]
                     /\ \A k \in 1..(Len(done) - 1) : done[k].ok
                     /\ Len(done) < 5 => ~done[Len(done)].ok
  /\ [][ \A i \in Inst :
           (pc[i] = "persist" /\ ParseFailed(i)') => (db' = db /\ envdb' = envdb) ]_vars

\* C17 witness: a plan did not parse, the five compensations were called and
\* none failed, and the store has no record of the service.
C17_Witness ==
  \E i \in Inst :
    /\ ParseFailed(i) /\ pc[i] = "done"
    /\ plan[i] = PlanGarbage
    /\ CompCalls(i) = [k \in 1..5 |-> [op |-> PushOrder[k], ok |-> TRUE]]
    /\ db[meta[i].name] = << >>
    /\ envdb = << >>

\* C18  No lost environment update under concurrency: when the sagas of two
\* different services have both returned success, the EnvVars table of the
\* store has the variables of both services.
C18_Original ==
  \A i, j \in Inst :
    (/\ i # j
     /\ service[i].Name # service[j].Name
     /\ pc[i] = "done" /\ ret[i] = Nil /\ Succeeded(i, "PutEnv")
     /\ pc[j] = "done" /\ ret[j] = Nil /\ Succeeded(j, "PutEnv")) =>
      /\ Derived(envdb, service[i])
      /\ Derived(envdb, service[j])

\* C19  A persisted "planned" record names live resources: while the store
\* holds the record a saga wrote as "planned", the cleanup of that saga has
\* not removed the container nor returned the addresses the record names.
C19_Original ==
  \A i \in Inst :
    (/\ Succeeded(i, "PutService")
     /\ db[meta[i].name] = <<service[i]>>
     /\ StateOf(db[meta[i].name]) = "planned") =>
      /\ ~Succeeded(i, "ContainerRemove")
      /\ ~Succeeded(i, "ReturnLocal")
      /\ ~Succeeded(i, "ReturnGlobal")

\* C20  No free address is still in use: every address a container that
\* exists is bound to, every address on the bridge and both addresses of
\* every NAT mapping are held in their pool.
C20_Original ==
  /\ \A c \in containers : c.IP \in localHeld
  /\ \A g \in bridge : g \in globalHeld
  /\ \A n \in nat : n[1] \in globalHeld /\ n[2] \in localHeld

\* ------------------------------------------------------- the build command
\* The documents of a Build model, as the server writes them.
DocRunning == "{id:1,status:running}"
DocComplete == "{id:1,status:complete}"
DocErrored == "{id:1,status:errored}"
DocOther == "{}"
NotJSON == "not json"

\* json.Unmarshal of entry.Document into a new Build: the status the document
\* names, the empty status when it names none.
UnmarshalBuild(doc) ==
  CASE doc = DocRunning -> [ok |-> TRUE, Status |-> "running"]
    [] doc = DocComplete -> [ok |-> TRUE, Status |-> "complete"]
    [] doc = DocErrored -> [ok |-> TRUE, Status |-> "errored"]
    [] doc = DocOther -> [ok |-> TRUE, Status |-> ""]
    [] OTHER -> [ok |-> FALSE, Status |-> ""]

\* What msg.Data may hold: a JSON object with some of the fields log, model
\* and document, or text that is no JSON.
Data(log, model, document) ==
  [json |-> TRUE, log |-> log, model |-> model, document |-> document]
BadData == [json |-> FALSE, log |-> Absent, model |-> Absent, document |-> Absent]
Datas ==
  {Data("building", Absent, Absent), Data(Absent, Absent, Absent), BadData,
   Data(Absent, "service", DocOther), Data(Absent, "default", DocOther),
   Data("done", "build", DocComplete), Data(Absent, "build", NotJSON)}
    \cup {Data(Absent, md, doc) : md \in {"Build", "build"},
                                  doc \in {DocRunning, DocComplete, DocErrored}}

\* The messages of client.Data, each with the first of its tags: those of the
\* three subscriptions, and the one mist sends when it disconnects.
Messages ==
  {[tag |-> "err", data |-> Data(Absent, Absent, Absent)]}
    \cup {[tag |-> IF d.model = Absent THEN "log" ELSE "job", data |-> d] : d \in Datas}

\* json.Unmarshal of msg.Data into the Entry of the loop: a field the object
\* mentions is set, a field it does not mention keeps the value the message
\* before left in it.
UnmarshalEntry(old, d) ==
  [Log |-> IF d.log = Absent THEN old.Log ELSE d.log,
   Model |-> IF d.model = Absent THEN old.Model ELSE d.model,
   Document |-> IF d.document = Absent THEN old.Document ELSE d.document]

\* The statuses of line 184 and line 189 on which the loop is left.
StatusClosing == {"compelete", "errored"}

\* "switch entry.Model": a Build model leaves the loop on a closing status and
\* ends the command when its document does not parse; the model "default"
\* leaves the loop; any other model goes on listening.
SwitchModel(e) ==
  IF e.Model \in {"Build", "build"}
    THEN LET build == UnmarshalBuild(e.Document)
         IN  IF ~build.ok THEN "fatal"
             ELSE IF build.Status \in StatusClosing THEN "left"
             ELSE "listening"
    ELSE IF e.Model = "default" THEN "left" ELSE "listening"

\* "switch { case entry.Log != "": ...; fallthrough; case entry.Model != "":
\* ...; default: break stream }".
SwitchEntry(e) ==
  IF e.Log # "" \/ e.Model # "" THEN SwitchModel(e) ELSE "left"

\* One turn of "for msg := range client.Data": the message is taken, then the
\* tag is looked at, the data unmarshalled (ui.LogFatal ends the command when
\* it is no JSON) and the entry switched on.
Listen(m) ==
  /\ stream = "listening"
  /\ Len(delivered) < MaxMsgs
  /\ delivered' = Append(delivered, m)
  /\ IF m.tag = "err"
       THEN stream' = "left" /\ UNCHANGED entry
       ELSE IF ~m.data.json
         THEN stream' = "fatal" /\ UNCHANGED entry
         ELSE /\ entry' = UnmarshalEntry(entry, m.data)
              /\ stream' = SwitchEntry(UnmarshalEntry(entry, m.data))
  /\ UNCHANGED sagaVars

\* client.Data is closed: the range loop ends.
CloseData ==
  /\ stream = "listening"
  /\ stream' = "left"
  /\ UNCHANGED <<entry, delivered, sagaVars>>

\* BuildCommand.Run has subscribed and posted the build; no saga runs.
InitBuild ==
  /\ InitSaga
  /\ stream = "listening"
  /\ entry = ZeroEntry
  /\ delivered = << >>

NextBuild ==
  \/ \E m \in Messages : Listen(m)
  \/ CloseData

SpecBuild == InitBuild /\ [][NextBuild]_vars

\* A message that is to end the listening: tagged "err", or a Build model
\* whose document has the status "complete" or "errored".
Closing(m) ==
  \/ m.tag = "err"
  \/ /\ m.data.json
     /\ m.data.model \in {"Build", "build"}
     /\ m.data.document \in {DocComplete, DocErrored}

\* C21  Build stream closes on completion: once the loop has taken a message
\* tagged "err" or a Build model message with the status "complete" or
\* "errored", it is not listening any more; so a stream that delivers a
\* complete build leaves the loop.
C21_Original ==
  \A k \in DOMAIN delivered : Closing(delivered[k]) => stream # "listening"

====
